---- MODULE Spec2Model ----
(***************************************************************************)
(* A model of pacdb (src/pacdb.py): the version comparator (Version,       *)
(* vercmp), the dependency-line parser (_split_depends), the metadata      *)
(* block parser (Database._parse_desc), the construction of a Database     *)
(* from a tar container, and the reverse-dependency scan of a Package.     *)
(*                                                                         *)
(* A Python str is a sequence of one-character strings; Python's None is   *)
(* the value None below, which is no sequence of characters.               *)
(***************************************************************************)
EXTENDS Integers, Sequences, FiniteSets, TLC

VARIABLES
    v1, v2, v3,   \* the version strings handed to vercmp / canonicalize
    out,          \* what the last call on them returned
    line,         \* the dependency line handed to _split_depends
    dep,          \* what _split_depends made of it
    tar,          \* the container: its members (path, data) in arrival order
    db,           \* the Database built from it
    res,          \* what the last call on the Database returned
    text,         \* the text handed to _parse_desc
    parsed        \* what _parse_desc made of it

vars == <<v1, v2, v3, out, line, dep, tar, db, res, text, parsed>>

None == <<"None">>

----------------------------------------------------------------------------
(* Characters *)

\* The characters the model uses, in code point order.
Ascii ==
    << "\n", " ", "%", "-", ".", "/", "0", "1", "2", "3", "4", "5", "6", "7",
       "8", "9", ":", "<", "=", ">", "A", "B", "C", "D", "E", "F", "G", "H",
       "I", "J", "K", "L", "M", "N", "O", "P", "Q", "R", "S", "T", "U", "V",
       "W", "X", "Y", "Z", "_", "a", "b", "c", "d", "e", "f", "g", "h", "i",
       "j", "k", "l", "m", "n", "o", "p", "q", "r", "s", "t", "u", "v", "w",
       "x", "y", "z", "~" >>

ord == [c \in {Ascii[i] : i \in DOMAIN Ascii} |->
            CHOOSE i \in DOMAIN Ascii : Ascii[i] = c]

isdigit(c) == c \in {"0", "1", "2", "3", "4", "5", "6", "7", "8", "9"}

isalpha(c) == (ord[c] >= ord["A"] /\ ord[c] <= ord["Z"])
              \/ (ord[c] >= ord["a"] /\ ord[c] <= ord["z"])

digitval == [c \in {"0", "1", "2", "3", "4", "5", "6", "7", "8", "9"} |->
                ord[c] - ord["0"]]

\* (a > b) - (a < b) on integers
cmp(a, b) == IF a > b THEN 1 ELSE IF a < b THEN -1 ELSE 0

\* (a > b) - (a < b) on Python strs: code point order, a proper prefix first
RECURSIVE strcmp(_, _)
strcmp(a, b) ==
    IF a = <<>> /\ b = <<>> THEN 0
    ELSE IF a = <<>> THEN -1
    ELSE IF b = <<>> THEN 1
    ELSE IF Head(a) # Head(b) THEN cmp(ord[Head(a)], ord[Head(b)])
    ELSE strcmp(Tail(a), Tail(b))

\* int(p) of a run of decimal digits
RECURSIVE int(_)
int(p) == IF p = <<>> THEN 0
          ELSE 10 * int(SubSeq(p, 1, Len(p) - 1)) + digitval[p[Len(p)]]

\* faulty variant of lstrip0: s[1:] when s starts with '0', one zero only
lstrip0_once(s) == IF s # <<>> /\ Head(s) = "0" THEN Tail(s) ELSE s

\* s.lstrip('0')
RECURSIVE lstrip0(_)
lstrip0(s) == IF s # <<>> /\ Head(s) = "0" THEN lstrip0(Tail(s)) ELSE s

\* all strings over alphabet A of length at most n
RECURSIVE Strings(_, _)
Strings(A, n) ==
    IF n = 0 THEN {<<>>}
    ELSE LET S == Strings(A, n - 1)
         IN  S \cup {Append(s, c) : s \in {t \in S : Len(t) = n - 1}, c \in A}

----------------------------------------------------------------------------
(* class Version *)

EPOCH_SEPS == {":", "~"}

\* re.split(r'(\D)', ver, 1): the index of the first non-digit, 0 when none
FirstNonDigit(s) ==
    IF \E i \in 1..Len(s) : ~isdigit(s[i])
    THEN CHOOSE i \in 1..Len(s) :
            ~isdigit(s[i]) /\ \A j \in 1..(i - 1) : isdigit(s[j])
    ELSE 0

\* ver.rsplit("-", 1): the index of the last '-', 0 when none
LastDash(s) ==
    IF \E i \in 1..Len(s) : s[i] = "-"
    THEN CHOOSE i \in 1..Len(s) :
            s[i] = "-" /\ \A j \in (i + 1)..Len(s) : s[j] # "-"
    ELSE 0

\* faulty variant of EpochSplit: only ':' is taken for an epoch separator
EpochSplit_colononly(s) ==
    LET k == FirstNonDigit(s)
    IN  IF k > 0 /\ s[k] = ":"
        THEN <<SubSeq(s, 1, k - 1), SubSeq(s, k + 1, Len(s))>>
        ELSE <<<<"0">>, s>>

\* (e, ver) as Version.__init__ splits a str at its epoch separator
EpochSplit(s) ==
    LET k == FirstNonDigit(s)
    IN  IF k > 0 /\ s[k] \in EPOCH_SEPS
        THEN <<SubSeq(s, 1, k - 1), SubSeq(s, k + 1, Len(s))>>
        ELSE <<<<"0">>, s>>

\* (e, ver, r) as Version.__init__ computes it from a str
Evr(s) ==
    LET e    == EpochSplit(s)[1]
        rest == EpochSplit(s)[2]
        d    == LastDash(rest)
    IN  IF d > 0
        THEN <<e, SubSeq(rest, 1, d - 1), SubSeq(rest, d + 1, Len(rest))>>
        ELSE <<e, rest, None>>

\* Version(ver) for a str or None
Version(ver) ==
    IF ver = None THEN [ver |-> None, evr |-> None]
    ELSE [ver |-> ver, evr |-> Evr(ver)]

_get_type(c) ==
    IF isdigit(c) THEN "DIGIT" ELSE IF isalpha(c) THEN "ALPHA" ELSE "OTHER"

\* the loop of _parse from character i on; yielded holds the extents so far
RECURSIVE ParseLoop(_, _, _, _, _)
ParseLoop(v, i, current, current_type, yielded) ==
    IF i > Len(v)
    THEN IF current # <<>> THEN Append(yielded, <<current, current_type>>)
         ELSE yielded
    ELSE LET c == v[i] IN
         IF current = <<>>
         THEN ParseLoop(v, i + 1, <<c>>, _get_type(c), yielded)
         ELSE IF _get_type(c) = current_type
         THEN ParseLoop(v, i + 1, Append(current, c), current_type, yielded)
         ELSE ParseLoop(v, i + 1, <<c>>, _get_type(c),
                        Append(yielded, <<current, current_type>>))

_parse(v) == ParseLoop(v, 1, <<>>, "OTHER", <<>>)

\* faulty variant of LeftExhausted: the two results are swapped
LeftExhausted_swapped(t2) == IF t2 = "ALPHA" THEN -1 ELSE 1

\* zip_longest ran out of extents of v1: the extent of v2 has type t2
LeftExhausted(t2) == IF t2 = "ALPHA" THEN 1 ELSE -1

\* faulty variant of RightExhausted: the test for _ALPHA is forgotten
RightExhausted_noalpha(t1) == 1

\* zip_longest ran out of extents of v2: the extent of v1 has type t1
RightExhausted(t1) == IF t1 = "ALPHA" THEN -1 ELSE 1

\* two extents of different types
MixedCmp(t1, t2) ==
    IF t1 = "DIGIT" THEN 1
    ELSE IF t2 = "DIGIT" THEN -1
    ELSE IF t1 = "OTHER" THEN 1
    ELSE -1

\* faulty variant of OtherCmp: separators compared by content
OtherCmp_content(p1, p2) == strcmp(p1, p2)

\* two extents of type _OTHER, _DIGIT, _ALPHA
OtherCmp(p1, p2) == cmp(Len(p1), Len(p2))
\* cmp(p1, p2) in the place of cmp(int(p1), int(p2)): digit runs as strings
DigitCmp_str(p1, p2) == strcmp(p1, p2)
DigitCmp(p1, p2) == cmp(int(p1), int(p2))
AlphaCmp(p1, p2) == strcmp(p1, p2)

\* one step of the zip_longest loop of _rpmvercmp on the extents at position
\* i: the value returned there, or 0 to go on
ExtentCmp(s1, s2, i) ==
    IF i > Len(s1) THEN LeftExhausted(s2[i][2])
    ELSE IF i > Len(s2) THEN RightExhausted(s1[i][2])
    ELSE LET p1 == s1[i][1]  t1 == s1[i][2]
             p2 == s2[i][1]  t2 == s2[i][2]
         IN  IF t1 # t2 THEN MixedCmp(t1, t2)
             ELSE IF t1 = "OTHER" THEN OtherCmp(p1, p2)
             ELSE IF t1 = "DIGIT" THEN DigitCmp(p1, p2)
             ELSE AlphaCmp(p1, p2)

RECURSIVE RpmLoop(_, _, _)
RpmLoop(s1, s2, i) ==
    IF i > Len(s1) /\ i > Len(s2) THEN 0
    ELSE LET ret == ExtentCmp(s1, s2, i)
         IN  IF ret # 0 THEN ret ELSE RpmLoop(s1, s2, i + 1)

_rpmvercmp(a, b) == RpmLoop(_parse(a), _parse(b), 1)

\* faulty variant of UpstreamReleaseCmp: the test ret == 0 is forgotten
UpstreamReleaseCmp_override(x, y) ==
    IF x[3] # None /\ y[3] # None THEN _rpmvercmp(x[3], y[3])
    ELSE _rpmvercmp(x[2], y[2])

\* the upstream parts of two evr, then the releases when both have one
UpstreamReleaseCmp(x, y) ==
    LET ret == _rpmvercmp(x[2], y[2])
    IN  IF ret = 0 /\ x[3] # None /\ y[3] # None THEN _rpmvercmp(x[3], y[3])
        ELSE ret

\* Version.vercmp(self, other) for other a str or None
Version_vercmp(self, other) ==
    IF other = None THEN (IF self.ver # None THEN 1 ELSE 0)
    ELSE IF self.ver = other THEN 0
    ELSE LET o == Version(other) IN
         IF self.evr = o.evr THEN 0
         ELSE IF self.evr = None THEN -1
         ELSE IF o.evr = None THEN 1
         ELSE LET ret == _rpmvercmp(self.evr[1], o.evr[1]) IN
              IF ret = 0 THEN UpstreamReleaseCmp(self.evr, o.evr) ELSE ret

\* Version.canonicalize(self, epochsep)
RECURSIVE CanonLoop(_, _)
CanonLoop(toks, i) ==
    IF i > Len(toks) THEN <<>>
    ELSE LET p == toks[i][1]  t == toks[i][2]
             piece == IF t = "OTHER" THEN <<".">>
                      ELSE IF t = "DIGIT"
                      THEN (IF lstrip0(p) = <<>> THEN <<"0">> ELSE lstrip0(p))
                      ELSE p
         IN  piece \o CanonLoop(toks, i + 1)

canonicalize(self, epochsep) ==
    IF self.evr = None THEN None
    ELSE LET e  == self.evr[1]
             r  == self.evr[3]
             ep == IF e # <<"0">> THEN Append(lstrip0(e), epochsep) ELSE <<>>
             rp == IF r # None
                   THEN <<"-">> \o (IF lstrip0(r) = <<>> THEN <<"0">>
                                    ELSE lstrip0(r))
                   ELSE <<>>
         IN  ep \o CanonLoop(_parse(self.evr[2]), 1) \o rp

\* the module's vercmp(v1, v2)
vercmp(a, b) == Version_vercmp(Version(a), b)

----------------------------------------------------------------------------
(* _split_depends *)

\* faulty variant of DependOps: '<' and '>' are tried before '<=' and '>='
DependOps_shortfirst == << <<"<">>, <<">">>, <<"<", "=">>, <<">", "=">>, <<"=">> >>

\* the alternatives (<=|>=|<|>|=) of _DEPENDRE, in the order they are tried
DependOps == << <<"<", "=">>, <<">", "=">>, <<"<">>, <<">">>, <<"=">> >>

IsPrefix(p, s) == Len(p) <= Len(s) /\ SubSeq(s, 1, Len(p)) = p

\* d.rsplit(': ', 1): where the rightmost ": " starts, 0 when there is none
RSplitAt(d) ==
    LET I == {i \in 1..(Len(d) - 1) : d[i] = ":" /\ d[i + 1] = " "}
    IN  IF I = {} THEN 0 ELSE CHOOSE i \in I : \A j \in I : j <= i

\* ([^<>=]+) is greedy: the number of characters it takes from position i on
RECURSIVE NameLen(_, _)
NameLen(s, i) ==
    IF i > Len(s) \/ s[i] \in {"<", ">", "="} THEN 0
    ELSE 1 + NameLen(s, i + 1)

\* _DEPENDRE.fullmatch(s).groups(), or None when s does not match
DependMatch(s) ==
    LET n    == NameLen(s, 1)
        rest == SubSeq(s, n + 1, Len(s))
    IN  IF n = 0 THEN None
        ELSE IF rest = <<>> THEN <<SubSeq(s, 1, n), None, None>>
        ELSE LET k  == CHOOSE k \in DOMAIN DependOps :
                          /\ IsPrefix(DependOps[k], rest)
                          /\ \A j \in 1..(k - 1) : ~IsPrefix(DependOps[j], rest)
                 op == DependOps[k]
             IN  <<SubSeq(s, 1, n), op, SubSeq(rest, Len(op) + 1, Len(rest))>>

\* the DependEntry (name, mod, version_str, desc) made of one line d, or None
\* when .groups() is called on the None that fullmatch returned
DependEntry(d) ==
    LET at   == RSplitAt(d)
        e0   == IF at = 0 THEN d ELSE SubSeq(d, 1, at - 1)
        desc == IF at = 0 THEN None ELSE SubSeq(d, at + 2, Len(d))
        g    == DependMatch(e0)
    IN  IF g = None THEN None
        ELSE <<g[1], g[2], g[3], desc>>

Raised(exc) == [status |-> "raised", exc |-> exc]
Returned(x) == [status |-> "ok", value |-> x]

\* faulty variant of _split_depends: a line that does not match is skipped
_split_depends_skip(deps) ==
    LET E == {DependEntry(deps[i]) : i \in DOMAIN deps} \ {None}
    IN  Returned([n \in {x[1] : x \in E} |-> {x \in E : x[1] = n}])

\* _split_depends(deps): the dict name -> set of entries, or the exception
_split_depends(deps) ==
    IF \E i \in DOMAIN deps : DependEntry(deps[i]) = None
    THEN Raised("AttributeError")
    ELSE LET E == {DependEntry(deps[i]) : i \in DOMAIN deps}
         IN  Returned([n \in {x[1] : x \in E} |-> {x \in E : x[1] = n}])

----------------------------------------------------------------------------
(* class Database *)

\* t.splitlines(), for texts whose only line boundary is "\n"
RECURSIVE SplitLoop(_, _, _, _)
SplitLoop(t, i, cur, acc) ==
    IF i > Len(t) THEN (IF cur # <<>> THEN Append(acc, cur) ELSE acc)
    ELSE IF t[i] = "\n" THEN SplitLoop(t, i + 1, <<>>, Append(acc, cur))
    ELSE SplitLoop(t, i + 1, Append(cur, t[i]), acc)

splitlines(t) == SplitLoop(t, 1, <<>>, <<>>)

\* l.strip()
RECURSIVE strip(_)
strip(l) ==
    IF l = <<>> THEN l
    ELSE IF Head(l) = " " THEN strip(Tail(l))
    ELSE IF l[Len(l)] = " " THEN strip(SubSeq(l, 1, Len(l) - 1))
    ELSE l

\* d.setdefault(k, v) in the place of d[k] = v: a key once set is kept
DictPut_setdefault(d, k, v) ==
    [x \in DOMAIN d \cup {k} |-> IF x \in DOMAIN d THEN d[x] ELSE v]

\* d[k] = v on a dict held as a function
DictPut(d, k, v) == [x \in DOMAIN d \cup {k} |-> IF x = k THEN v ELSE d[x]]

\* the loop of _parse_desc from line i on, and the commit after it
RECURSIVE ParseDescLoop(_, _, _, _, _)
ParseDescLoop(lines, i, d, cat, values) ==
    IF i > Len(lines)
    THEN IF cat # None THEN DictPut(d, cat, values) ELSE d
    ELSE LET l == strip(lines[i]) IN
         IF cat = None THEN ParseDescLoop(lines, i + 1, d, l, values)
         ELSE IF l = <<>>
         THEN ParseDescLoop(lines, i + 1, DictPut(d, cat, values), None, <<>>)
         ELSE ParseDescLoop(lines, i + 1, d, cat, Append(values, l))

_parse_desc(t) == ParseDescLoop(splitlines(t), 1, <<>>, None, <<>>)

\* info.name.split("/", 1)[0]
RECURSIVE FirstSegment(_)
FirstSegment(name) ==
    IF name = <<>> \/ Head(name) = "/" THEN <<>>
    ELSE <<Head(name)>> \o FirstSegment(Tail(name))

\* name.endswith(suffix)
endswith(name, suffix) ==
    /\ Len(suffix) <= Len(name)
    /\ SubSeq(name, Len(name) - Len(suffix) + 1, Len(name)) = suffix

\* the members whose text is read: .../desc, .../depends, .../files
IsMetadata(name) ==
    \/ endswith(name, <<"/", "d", "e", "s", "c">>)
    \/ endswith(name, <<"/", "d", "e", "p", "e", "n", "d", "s">>)
    \/ endswith(name, <<"/", "f", "i", "l", "e", "s">>)

\* the order of two tuples (str, x) under sorted(): by the strs and, for
\* equal strs, by the second components (the bytes of two infos)
TupleCmp(a, b) ==
    IF strcmp(a[1], b[1]) # 0 THEN strcmp(a[1], b[1]) ELSE strcmp(a[2], b[2])

\* sorted(xs) of a list of such tuples, by insertion
RECURSIVE Insert(_, _)
Insert(x, ys) ==
    IF ys = <<>> THEN <<x>>
    ELSE IF TupleCmp(x, Head(ys)) < 0 THEN <<x>> \o ys
    ELSE <<Head(ys)>> \o Insert(x, Tail(ys))

RECURSIVE sorted(_)
sorted(xs) ==
    IF xs = <<>> THEN <<>>
    ELSE Insert(xs[Len(xs)], sorted(SubSeq(xs, 1, Len(xs) - 1)))

\* the first loop of __init__: packages[package_name] after all members, the
\* (name, data) of the members of that directory that extractfile() opens
RECURSIVE Infos(_, _)
Infos(members, package_name) ==
    IF members = <<>> THEN <<>>
    ELSE LET info == Head(members) IN
         IF info.data # None /\ FirstSegment(info.name) = package_name
         THEN <<<<info.name, info.data>>>> \o Infos(Tail(members), package_name)
         ELSE Infos(Tail(members), package_name)

\* the keys of packages
PackageNames(members) ==
    {FirstSegment(members[i].name) :
        i \in {j \in DOMAIN members : members[j].data # None}}

\* faulty variant of SortedInfos: the members are taken as they arrive
SortedInfos_arrival(infos) == infos

\* sorted(infos)
SortedInfos(infos) == sorted(infos)

\* t: the decoded data of the metadata members of the sorted infos
RECURSIVE Concat(_)
Concat(infos) ==
    IF infos = <<>> THEN <<>>
    ELSE (IF IsMetadata(Head(infos)[1]) THEN Head(infos)[2] ELSE <<>>)
         \o Concat(Tail(infos))

\* a finite set as a sequence (in some order, which sorted() undoes)
RECURSIVE SetToSeq(_)
SetToSeq(S) ==
    IF S = {} THEN <<>>
    ELSE LET x == CHOOSE x \in S : TRUE IN <<x>> \o SetToSeq(S \ {x})

\* sorted(packages.items())
SortedPackages(members) ==
    sorted(SetToSeq({<<n, Infos(members, n)>> : n \in PackageNames(members)}))

NAME == <<"%", "N", "A", "M", "E", "%">>
DEPENDS == <<"%", "D", "E", "P", "E", "N", "D", "S", "%">>
OPTDEPENDS == <<"%", "O", "P", "T", "D", "E", "P", "E", "N", "D", "S", "%">>
PROVIDES == <<"%", "P", "R", "O", "V", "I", "D", "E", "S", "%">>
FILES == <<"%", "F", "I", "L", "E", "S", "%">>

\* byname[k] = v on a dict held in insertion order, as a sequence of <<k, v>>
RECURSIVE OrderedPut(_, _, _)
OrderedPut(byname, k, v) ==
    IF byname = <<>> THEN <<<<k, v>>>>
    ELSE IF Head(byname)[1] = k THEN <<<<k, v>>>> \o Tail(byname)
    ELSE <<Head(byname)>> \o OrderedPut(Tail(byname), k, v)

\* the second loop of __init__ from the i-th of the sorted items on
RECURSIVE BuildLoop(_, _, _)
BuildLoop(items, i, byname) ==
    IF i > Len(items) THEN Returned(byname)
    ELSE LET t    == Concat(SortedInfos(items[i][2]))
             desc == _parse_desc(t)
         IN  IF NAME \notin DOMAIN desc THEN Raised("KeyError")
             ELSE IF desc[NAME] = <<>> THEN Raised("IndexError")
             ELSE BuildLoop(items, i + 1, OrderedPut(byname, desc[NAME][1], desc))

\* Database(name, fileobj): byname, or the exception __init__ raises
Database(members) == BuildLoop(SortedPackages(members), 1, <<>>)

\* Database.__iter__: the entries of byname.values()
Database_iter(byname) == [i \in DOMAIN byname |-> byname[i][2]]

\* Database.get_pkg(pkgname): the entry, or None
get_pkg(byname, pkgname) ==
    IF \E i \in DOMAIN byname : byname[i][1] = pkgname
    THEN byname[CHOOSE i \in DOMAIN byname : byname[i][1] = pkgname][2]
    ELSE None

----------------------------------------------------------------------------
(* class Package *)

\* Package._get_list_entry
_get_list_entry(entry, name) ==
    IF name \in DOMAIN entry THEN entry[name] ELSE <<>>

\* Package.name
Package_name(entry) == entry[NAME][1]

\* Package.depends, .optdepends, .provides: _split_depends of the raw lines
Package_depends(entry, tag) == _split_depends(_get_list_entry(entry, tag))

\* faulty variant of Matches: the names the package provides are not looked up
Matches_nameonly(name, provs, deps) == name \in DOMAIN deps

\* self.name in deps or not provs.isdisjoint(deps.keys())
Matches(name, provs, deps) ==
    name \in DOMAIN deps \/ (provs \cap DOMAIN deps) # {}

\* the loop of compute_rdepends over the entries of self.db from the i-th on
RECURSIVE RdependsLoop(_, _, _, _, _, _)
RdependsLoop(entries, i, name, provs, tag, ret) ==
    IF i > Len(entries) THEN Returned(ret)
    ELSE LET deps == Package_depends(entries[i], tag) IN
         IF deps.status = "raised" THEN deps
         ELSE IF Matches(name, provs, deps.value)
         THEN RdependsLoop(entries, i + 1, name, provs, tag,
                           Append(ret, Package_name(entries[i])))
         ELSE RdependsLoop(entries, i + 1, name, provs, tag, ret)

\* Package(db, entry).compute_rdepends(dependattr), tag the tag of dependattr
compute_rdepends(byname, entry, tag) ==
    LET provides == Package_depends(entry, PROVIDES) IN
    IF provides.status = "raised" THEN provides
    ELSE RdependsLoop(Database_iter(byname), 1, Package_name(entry),
                      DOMAIN provides.value, tag, <<>>)

compute_requiredby(byname, entry) == compute_rdepends(byname, entry, DEPENDS)
compute_optionalfor(byname, entry) == compute_rdepends(byname, entry, OPTDEPENDS)

----------------------------------------------------------------------------
(* Calls of the version comparator (src/test_pacdb.py drives it this way) *)

MaxLen == 2        \* longest version string of a compared pair
MaxLen3 == 1       \* longest version string of a compared triple
MaxCanonLen == 4   \* longest version string that is canonicalized

CmpAlphabet == {"0", "1", "a", "b", ".", "-", ":"}
TripleAlphabet == {"1", "2", "a", ".", "-", ":"}
CanonAlphabet == {"0", "1", "a", ".", "_", "-", ":", "~"}

\* version strings of src/test_pacdb.py
TestVersions ==
    { <<"1", ".", "5">>, <<"1", ".", "5", ".", "a">>, <<"1", ".", "5", "b">>,
      <<"1", ".", "5", "-", "1">>, <<"1", ".", "5", "b", "-", "1">>,
      <<"1", ".", "0", "r", "c">>, <<"1", ".", "0">>,
      <<"1", ".", "0", "b", "e", "t", "a">>,
      <<"2", ".", "0">>, <<"2", "_", "0">>,
      <<"2", "_", "_", "_", "a">>, <<"2", "_", "a">>,
      <<"0", ":", "1", ".", "0">>, <<"0", "~", "1", ".", "0">>,
      <<"1", "~", "1", ".", "0">>, <<"0", ":", "1", ".", "0", "-", "1">>,
      <<"0", "0", "1", ".", "0", "5">>, <<"1", ".", "0", "-", "2">> }

CmpVersions == Strings(CmpAlphabet, MaxLen) \cup TestVersions
TripleVersions ==
    Strings(TripleAlphabet, MaxLen3)
        \cup {<<x, "-", y>> : x \in {"1", "a"}, y \in {"1", "2", "a"}}
        \cup {<<"1", ":", "1">>, <<"1", ".", "1">>, <<"1", "a", "a">>}
CanonVersions == Strings(CanonAlphabet, MaxCanonLen) \cup TestVersions

NoCall == [op |-> "none"]

\* the parts of the state that a specification does not use
VersionIdle == v1 = <<>> /\ v2 = <<>> /\ v3 = <<>> /\ out = NoCall
DependIdle == line = <<>> /\ dep = [status |-> "none"]
DbIdle == tar = <<>> /\ db = [status |-> "none"] /\ res = NoCall
DescIdle == text = <<>> /\ parsed = [status |-> "none"]

\* VerCmpTest._runtest: vercmp(ver1, ver2) and its mirror case
RunVercmp ==
    /\ out = NoCall
    /\ out' = [op |-> "vercmp", fwd |-> vercmp(v1, v2), rev |-> vercmp(v2, v1)]
    /\ UNCHANGED <<v1, v2, v3, line, dep, tar, db, res, text, parsed>>

\* Version._rpmvercmp(v1, v2) on two strings
RunRpmvercmp ==
    /\ out = NoCall
    /\ out' = [op |-> "rpmvercmp", ret |-> _rpmvercmp(v1, v2)]
    /\ UNCHANGED <<v1, v2, v3, line, dep, tar, db, res, text, parsed>>

InitCmp ==
    /\ v1 \in CmpVersions /\ v2 \in CmpVersions /\ v3 = <<>> /\ out = NoCall
    /\ DependIdle /\ DbIdle /\ DescIdle

NextCmp == RunVercmp \/ RunRpmvercmp

SpecCmp == InitCmp /\ [][NextCmp]_vars

\* vercmp on each pair of three version strings
RunVercmp3 ==
    /\ out = NoCall
    /\ out' = [op |-> "vercmp3", ab |-> vercmp(v1, v2), bc |-> vercmp(v2, v3),
               ac |-> vercmp(v1, v3)]
    /\ UNCHANGED <<v1, v2, v3, line, dep, tar, db, res, text, parsed>>

InitTriple ==
    /\ v1 \in TripleVersions /\ v2 \in TripleVersions /\ v3 \in TripleVersions
    /\ out = NoCall /\ DependIdle /\ DbIdle /\ DescIdle

NextTriple == RunVercmp3

SpecTriple == InitTriple /\ [][NextTriple]_vars

\* Version(v1).canonicalize(sep), and the same on its result
RunCanonicalize(sep) ==
    /\ out = NoCall
    /\ LET c == canonicalize(Version(v1), sep)
       IN  out' = [op |-> "canonicalize", sep |-> sep, c |-> c,
                   cc |-> canonicalize(Version(c), sep)]
    /\ UNCHANGED <<v1, v2, v3, line, dep, tar, db, res, text, parsed>>

\* vercmp(v1, Version(v1).canonicalize(sep))
RunVercmpCanonical(sep) ==
    /\ out = NoCall
    /\ LET c == canonicalize(Version(v1), sep)
       IN  out' = [op |-> "vercmp_canonical", sep |-> sep, c |-> c,
                   ret |-> vercmp(v1, c)]
    /\ UNCHANGED <<v1, v2, v3, line, dep, tar, db, res, text, parsed>>

InitCanon ==
    /\ v1 \in CanonVersions /\ v2 = <<>> /\ v3 = <<>> /\ out = NoCall
    /\ DependIdle /\ DbIdle /\ DescIdle

NextCanon ==
    \E sep \in EPOCH_SEPS : RunCanonicalize(sep) \/ RunVercmpCanonical(sep)

SpecCanon == InitCanon /\ [][NextCanon]_vars

----------------------------------------------------------------------------
(* A container is read into a Database, which is then queried *)

MaxMembers == 3    \* most members of a container

\* a %TAG% header line, one value per line, and the blank line that ends it
RECURSIVE Lines(_)
Lines(values) ==
    IF values = <<>> THEN <<>>
    ELSE Head(values) \o <<"\n">> \o Lines(Tail(values))

Block(tag, values) == tag \o <<"\n">> \o Lines(values) \o <<"\n">>

File(dir, file, data) == [name |-> dir \o <<"/">> \o file, data |-> data]

desc_file == <<"d", "e", "s", "c">>
depends_file == <<"d", "e", "p", "e", "n", "d", "s">>
files_file == <<"f", "i", "l", "e", "s">>

\* the members a container is made of
Members ==
    { \* a depends on b>=2
      File(<<"a">>, desc_file,
           Block(NAME, << <<"a">> >>)
           \o Block(DEPENDS, << <<"b", ">", "=", "2">> >>)),
      \* a second member of a, sorted before a/desc
      File(<<"a">>, depends_file,
           Block(OPTDEPENDS, << <<"v", ":", " ", "x">> >>)),
      \* b provides v=1
      File(<<"b">>, desc_file,
           Block(NAME, << <<"b">> >>)
           \o Block(PROVIDES, << <<"v", "=", "1">> >>)),
      \* a second member of b, sorted after b/desc, its last line unterminated
      File(<<"b">>, files_file, FILES \o <<"\n", "f">>),
      \* the directory b itself, which extractfile() does not open
      [name |-> <<"b">>, data |-> None],
      \* c depends on v<2 and on a, and optionally on b
      File(<<"c">>, desc_file,
           Block(NAME, << <<"c">> >>)
           \o Block(DEPENDS, << <<"v", "<", "2">>, <<"a">> >>)
           \o Block(OPTDEPENDS, << <<"b">> >>)),
      \* a directory d whose %NAME% is a
      File(<<"d">>, desc_file,
           Block(NAME, << <<"a">> >>)
           \o Block(DEPENDS, << <<"c">> >>)),
      \* m holds dependency lines with no name
      File(<<"m">>, desc_file,
           Block(NAME, << <<"m">> >>)
           \o Block(DEPENDS, << <<"b">>, <<">", "=", "1">> >>)
           \o Block(PROVIDES, << <<"=", "2">> >>)),
      \* n has no desc, so no %NAME%
      File(<<"n">>, files_file, Block(FILES, << <<"f">> >>)),
      \* e has a %NAME% block without a value
      File(<<"e">>, desc_file, Block(NAME, <<>>)) }

InTar(m) == \E i \in DOMAIN tar : tar[i] = m

\* the container gets one more member
AddMember(m) ==
    /\ db.status = "none"
    /\ Len(tar) < MaxMembers
    /\ ~InTar(m)
    /\ tar' = Append(tar, m)
    /\ UNCHANGED <<v1, v2, v3, out, line, dep, db, res, text, parsed>>

\* Database(name, fileobj=...)
Construct ==
    /\ db.status = "none"
    /\ db' = Database(tar)
    /\ UNCHANGED <<v1, v2, v3, out, line, dep, tar, res, text, parsed>>

\* the packages of the Database: its keys
Keys == IF db.status = "ok" THEN {db.value[i][1] : i \in DOMAIN db.value} ELSE {}

\* list(db)
Iterate ==
    /\ db.status = "ok"
    /\ res' = [op |-> "iter", value |-> Database_iter(db.value)]
    /\ UNCHANGED <<v1, v2, v3, out, line, dep, tar, db, text, parsed>>

\* db.get_pkg(q).depends, .optdepends or .provides
ReadDepends(q, tag) ==
    /\ db.status = "ok"
    /\ res' = [op |-> "depends", pkg |-> q, tag |-> tag,
               ret |-> Package_depends(get_pkg(db.value, q), tag)]
    /\ UNCHANGED <<v1, v2, v3, out, line, dep, tar, db, text, parsed>>

\* db.get_pkg(q).compute_requiredby()
RequiredBy(q) ==
    /\ db.status = "ok"
    /\ res' = [op |-> "requiredby", pkg |-> q,
               ret |-> compute_requiredby(db.value, get_pkg(db.value, q))]
    /\ UNCHANGED <<v1, v2, v3, out, line, dep, tar, db, text, parsed>>

\* db.get_pkg(q).compute_optionalfor()
OptionalFor(q) ==
    /\ db.status = "ok"
    /\ res' = [op |-> "optionalfor", pkg |-> q,
               ret |-> compute_optionalfor(db.value, get_pkg(db.value, q))]
    /\ UNCHANGED <<v1, v2, v3, out, line, dep, tar, db, text, parsed>>

Init == VersionIdle /\ DependIdle /\ DbIdle /\ DescIdle

Next ==
    \/ \E m \in Members : AddMember(m)
    \/ Construct
    \/ Iterate
    \/ \E q \in Keys, tag \in {DEPENDS, OPTDEPENDS, PROVIDES} : ReadDepends(q, tag)
    \/ \E q \in Keys : RequiredBy(q)
    \/ \E q \in Keys : OptionalFor(q)

Spec == Init /\ [][Next]_vars

----------------------------------------------------------------------------
(* One dependency line is parsed *)

MaxLineLen == 4    \* longest dependency line

LineAlphabet == {"f", "1", "<", ">", "=", ":", " "}

DocumentedLines == {<<"f", "o", "o", ">", "=", "1", ".", "2", ":", " ",
             "o", "p", "t", "i", "o", "n", "a", "l", " ", "t", "h", "i", "n", "g">>}

DependLines == Strings(LineAlphabet, MaxLineLen) \cup DocumentedLines

\* _split_depends([line])
RunSplitDepends ==
    /\ dep.status = "none"
    /\ dep' = _split_depends(<<line>>)
    /\ UNCHANGED <<v1, v2, v3, out, line, tar, db, res, text, parsed>>

InitDepend ==
    /\ VersionIdle /\ line \in DependLines /\ dep = [status |-> "none"]
    /\ DbIdle /\ DescIdle

NextDepend == RunSplitDepends

SpecDepend == InitDepend /\ [][NextDepend]_vars

(***************************************************************************)
(* One metadata text is parsed *)
(***************************************************************************)
MaxTextLen == 6    \* longest metadata text

TextAlphabet == {"a", "b", " ", "\n"}

\* a desc text as the containers hold it: two tags, the second with two values
WellFormedTexts == {Block(<<"a">>, << <<"b">> >>)
                        \o Block(<<"b">>, << <<"a", " ", "b">>, <<"a">> >>)}

DescTexts == Strings(TextAlphabet, MaxTextLen) \cup WellFormedTexts

\* Database._parse_desc(text)
RunParseDesc ==
    /\ parsed.status = "none"
    /\ parsed' = Returned(_parse_desc(text))
    /\ UNCHANGED <<v1, v2, v3, out, line, dep, tar, db, res, text>>

InitDesc ==
    /\ VersionIdle /\ DependIdle /\ DbIdle
    /\ text \in DescTexts /\ parsed = [status |-> "none"]

NextDesc == RunParseDesc

SpecDesc == InitDesc /\ [][NextDesc]_vars

----------------------------------------------------------------------------
(* How the claims read a version string: stated on the characters, not on  *)
(* the code's Evr and _parse                                               *)

Min(a, b) == IF a < b THEN a ELSE b

\* the position of the leading epoch separator: a ':' or '~' that only digits
\* precede; 0 when the string has no such prefix
EpochSepAt(s) ==
    LET K == {k \in 1..Len(s) :
                s[k] \in {":", "~"} /\ \A j \in 1..(k - 1) : isdigit(s[j])}
    IN  IF K = {} THEN 0 ELSE CHOOSE k \in K : TRUE

EpochOf(s) ==
    IF EpochSepAt(s) = 0 THEN <<"0">> ELSE SubSeq(s, 1, EpochSepAt(s) - 1)

HasRelease(s) == \E i \in (EpochSepAt(s) + 1)..Len(s) : s[i] = "-"

LastDashAt(s) ==
    CHOOSE i \in 1..Len(s) : s[i] = "-" /\ \A j \in (i + 1)..Len(s) : s[j] # "-"

ReleaseOf(s) == SubSeq(s, LastDashAt(s) + 1, Len(s))

UpstreamOf(s) ==
    SubSeq(s, EpochSepAt(s) + 1,
           IF HasRelease(s) THEN LastDashAt(s) - 1 ELSE Len(s))

\* the tokens of s: maximal runs of characters of one class
TokStarts(s) ==
    {i \in 1..Len(s) : i = 1 \/ _get_type(s[i]) # _get_type(s[i - 1])}

NTok(s) == Cardinality(TokStarts(s))

TokStart(s, k) ==
    CHOOSE i \in TokStarts(s) : Cardinality({j \in TokStarts(s) : j <= i}) = k

Tok(s, k) ==
    SubSeq(s, TokStart(s, k),
           IF k = NTok(s) THEN Len(s) ELSE TokStart(s, k + 1) - 1)

TokClass(s, k) == _get_type(s[TokStart(s, k)])

ClassRank(t) == IF t = "DIGIT" THEN 3 ELSE IF t = "OTHER" THEN 2 ELSE 1

\* lexicographic order by code point
LexCmp(p, q) ==
    LET D == {i \in 1..Min(Len(p), Len(q)) : p[i] # q[i]}
    IN  IF D = {} THEN cmp(Len(p), Len(q))
        ELSE LET i == CHOOSE i \in D : \A j \in D : i <= j
             IN  cmp(ord[p[i]], ord[q[i]])

\* order of two digit runs by value: without their leading zeros, the longer
\* is the greater, and of two of one length the lexicographically greater
NumCmp(p, q) ==
    LET a == lstrip0(p)  b == lstrip0(q)
    IN  IF Len(a) # Len(b) THEN cmp(Len(a), Len(b)) ELSE LexCmp(a, b)

\* the order of the k-th tokens of a and b
TokCmp(a, b, k) ==
    LET ta == TokClass(a, k)  tb == TokClass(b, k)
    IN  IF ta # tb THEN cmp(ClassRank(ta), ClassRank(tb))
        ELSE IF ta = "OTHER" THEN cmp(Len(Tok(a, k)), Len(Tok(b, k)))
        ELSE IF ta = "DIGIT" THEN NumCmp(Tok(a, k), Tok(b, k))
        ELSE LexCmp(Tok(a, k), Tok(b, k))

\* the positions, among those both strings have, where the tokens differ
Differing(a, b) == {k \in 1..Min(NTok(a), NTok(b)) : TokCmp(a, b, k) # 0}

\* s is t followed by one or more alphabetic characters, and t ends in a digit
AlphaSuffixed(s, t) ==
    /\ Len(t) >= 1 /\ Len(s) > Len(t)
    /\ isdigit(t[Len(t)])
    /\ SubSeq(s, 1, Len(t)) = t
    /\ \A i \in (Len(t) + 1)..Len(s) : isalpha(s[i])

FirstNonZero(x, y, z) == IF x # 0 THEN x ELSE IF y # 0 THEN y ELSE z

----------------------------------------------------------------------------
(* Claims about the version comparator *)

\* C1: for all version strings a and b, vercmp(a, b) = -vercmp(b, a), and
\* vercmp(a, a) = 0.
C1_Antisymmetric ==
    out.op = "vercmp" =>
        /\ out.fwd = -out.rev
        /\ (v1 = v2 => out.fwd = 0)

C1_Witness ==
    /\ out.op = "vercmp" /\ out.fwd = 1 /\ out.rev = -1
    /\ AlphaSuffixed(v2, v1)

\* C2 as claimed: for all a, b, c, vercmp(a, b) <= 0 and vercmp(b, c) <= 0
\* imply vercmp(a, c) <= 0, also when only some of them carry a release.
C2_Transitive ==
    out.op = "vercmp3" =>
        (out.ab <= 0 /\ out.bc <= 0 => out.ac <= 0)

\* C2 as amended: vercmp(a, b) <= 0 and vercmp(b, c) <= 0 imply
\* vercmp(a, c) <= 0 unless a and c both carry a release and b carries none.
C2_TransitiveUnlessMiddleBare ==
    (out.op = "vercmp3" /\ ~(HasRelease(v1) /\ HasRelease(v3) /\ ~HasRelease(v2)))
        => (out.ab <= 0 /\ out.bc <= 0 => out.ac <= 0)

C2_Witness ==
    /\ out.op = "vercmp3"
    /\ HasRelease(v1) /\ ~HasRelease(v2) /\ ~HasRelease(v3)
    /\ out.ab = 0 /\ out.bc = -1 /\ out.ac = -1

\* C3: vercmp(a, b) is the first non-zero result among the segment comparison
\* of the epochs, of the upstream parts and, only when both have a release, of
\* the releases. So a differing epoch decides, "0<sep>v" equals "v" for a v
\* without an epoch prefix, and with equal epochs and upstreams and a release
\* missing on either side the result is 0.
C3_EpochUpstreamRelease ==
    out.op = "vercmp" =>
        LET e == _rpmvercmp(EpochOf(v1), EpochOf(v2))
            u == _rpmvercmp(UpstreamOf(v1), UpstreamOf(v2))
            r == IF HasRelease(v1) /\ HasRelease(v2)
                 THEN _rpmvercmp(ReleaseOf(v1), ReleaseOf(v2)) ELSE 0
        IN  /\ out.fwd = FirstNonZero(e, u, r)
            /\ (e # 0 => out.fwd = e)
            /\ (e = 0 /\ u = 0 /\ ~(HasRelease(v1) /\ HasRelease(v2))
                    => out.fwd = 0)
            /\ \A sep \in {":", "~"} :
                   (EpochSepAt(v2) = 0 /\ v1 = <<"0", sep>> \o v2)
                       => out.fwd = 0

\* "0:1.0-1" against "1.0-2": the releases decide
C3_Witness ==
    /\ out.op = "vercmp"
    /\ v1 = <<"0", ":", "1", ".", "0", "-", "1">>
    /\ v2 = <<"1", ".", "0", "-", "2">>
    /\ out.fwd = -1

\* C4: in segment-wise comparison, when the tokens of the shorter string all
\* equal those of the longer, the shorter is the greater if the first extra
\* token is alphabetic and the smaller if it is a digit or separator run.
\* Hence vercmp(s + a, s) = -1 for an alphabetic suffix a on an s ending in a
\* digit, and vercmp("1.5.a", "1.5") = 1.
C4_ExtraToken ==
    /\ out.op = "rpmvercmp" =>
        /\ (Differing(v1, v2) = {} /\ NTok(v1) < NTok(v2)) =>
              out.ret = (IF TokClass(v2, NTok(v1) + 1) = "ALPHA" THEN 1 ELSE -1)
        /\ (Differing(v1, v2) = {} /\ NTok(v2) < NTok(v1)) =>
              out.ret = (IF TokClass(v1, NTok(v2) + 1) = "ALPHA" THEN -1 ELSE 1)
    /\ out.op = "vercmp" =>
        /\ AlphaSuffixed(v1, v2) => out.fwd = -1
        /\ (v1 = <<"1", ".", "5", ".", "a">> /\ v2 = <<"1", ".", "5">>)
              => out.fwd = 1

C4_Witness ==
    /\ out.op = "vercmp"
    /\ v1 = <<"1", ".", "0", "r", "c">> /\ v2 = <<"1", ".", "0">>
    /\ out.fwd = -1

\* C5: tokens at one position order DIGIT > OTHER > ALPHA across classes; two
\* OTHER tokens by length only, two DIGIT tokens by value, two ALPHA tokens
\* lexicographically. The first position with a non-zero result gives the
\* result, and equal tokens at every position give 0.
C5_TokenOrder ==
    out.op = "rpmvercmp" =>
        LET D == Differing(v1, v2)
        IN  /\ D # {} =>
                 out.ret = TokCmp(v1, v2, CHOOSE k \in D : \A j \in D : k <= j)
            /\ (D = {} /\ NTok(v1) = NTok(v2)) => out.ret = 0

\* "2___a" against "2_a": the longer separator run wins
C5_Witness ==
    /\ out.op = "rpmvercmp"
    /\ v1 = <<"2", "_", "_", "_", "a">> /\ v2 = <<"2", "_", "a">>
    /\ out.ret = 1

\* C6: canonicalizing the canonical form again, with the same epoch
\* separator, yields the canonical form.
C6_CanonIdempotent ==
    out.op = "canonicalize" => out.cc = out.c

\* "00:-": an all-zero epoch, an empty upstream and an empty release
C6_Witness ==
    /\ out.op = "canonicalize"
    /\ v1 = <<"0", "0", ":", "-">>
    /\ out.c = <<":", "-", "0">> /\ out.cc = out.c

----------------------------------------------------------------------------
(* How the claims read a dependency line and a container: stated on the    *)
(* characters and the members, not on the code's DependMatch and loops     *)

Range(f) == {f[i] : i \in DOMAIN f}

\* where the rightmost ": " of the line starts, 0 when it has none
DescriptionAt(l) ==
    IF \E i \in 1..(Len(l) - 1) : l[i] = ":" /\ l[i + 1] = " "
    THEN CHOOSE i \in 1..(Len(l) - 1) :
            /\ l[i] = ":" /\ l[i + 1] = " "
            /\ \A j \in (i + 1)..(Len(l) - 1) : ~(l[j] = ":" /\ l[j + 1] = " ")
    ELSE 0

DescriptionOf(l) ==
    IF DescriptionAt(l) = 0 THEN None ELSE SubSeq(l, DescriptionAt(l) + 2, Len(l))

\* the line without its description
Expression(l) ==
    IF DescriptionAt(l) = 0 THEN l ELSE SubSeq(l, 1, DescriptionAt(l) - 1)

\* the length of the longest prefix of the expression without '<', '>', '='
NameLength(l) ==
    CHOOSE n \in 0..Len(Expression(l)) :
        /\ \A i \in 1..n : Expression(l)[i] \notin {"<", ">", "="}
        /\ n < Len(Expression(l)) => Expression(l)[n + 1] \in {"<", ">", "="}

NameOf(l) == SubSeq(Expression(l), 1, NameLength(l))

HasOperator(l) == NameLength(l) < Len(Expression(l))

\* the operator after the name: "<=" and ">=" before "<" and ">"
OperatorOf(l) ==
    LET x == Expression(l)  n == NameLength(l)
    IN  IF ~HasOperator(l) THEN None
        ELSE IF x[n + 1] \in {"<", ">"} /\ n + 2 <= Len(x) /\ x[n + 2] = "="
        THEN <<x[n + 1], "=">>
        ELSE <<x[n + 1]>>

OperandOf(l) ==
    IF ~HasOperator(l) THEN None
    ELSE SubSeq(Expression(l), NameLength(l) + Len(OperatorOf(l)) + 1,
                Len(Expression(l)))

\* the line does not match the grammar: its name portion is empty
Malformed(l) == NameOf(l) = <<>>

\* the entries of the Database
Entries == IF db.status = "ok" THEN {db.value[i][2] : i \in DOMAIN db.value} ELSE {}

EntryOf(q) == CHOOSE e \in Entries : e[NAME][1] = q

RawLines(e, tag) == IF tag \in DOMAIN e THEN Range(e[tag]) ELSE {}

\* the keys of the depends / optdepends / provides map of an entry
KeysOf(e, tag) == {NameOf(l) : l \in RawLines(e, tag)}

\* the names of the packages that depend on q or on a name q provides
DependingOn(q, tag) ==
    {p[NAME][1] : p \in {e \in Entries :
        \/ q \in KeysOf(e, tag)
        \/ KeysOf(EntryOf(q), PROVIDES) \cap KeysOf(e, tag) # {}}}

\* the package directories of the container: the first path segments of the
\* members that are files
Directories == {FirstSegment(tar[i].name) : i \in {j \in DOMAIN tar : tar[j].data # None}}

\* the desc, depends and files members of a directory
MetadataOf(dir) ==
    {tar[i] : i \in {j \in DOMAIN tar :
        /\ tar[j].data # None
        /\ FirstSegment(tar[j].name) = dir
        /\ IsMetadata(tar[j].name)}}

\* the members of M in ascending order of path, their data concatenated
RECURSIVE TextOf(_)
TextOf(M) ==
    IF M = {} THEN <<>>
    ELSE LET m == CHOOSE m \in M : \A x \in M : LexCmp(m.name, x.name) <= 0
         IN  m.data \o TextOf(M \ {m})

DirectoryEntry(dir) == _parse_desc(TextOf(MetadataOf(dir)))

HasName(dir) ==
    NAME \in DOMAIN DirectoryEntry(dir) /\ DirectoryEntry(dir)[NAME] # <<>>

DirectoryName(dir) == DirectoryEntry(dir)[NAME][1]

\* the entries of the directories S in ascending order of directory name
RECURSIVE EntriesOf(_)
EntriesOf(S) ==
    IF S = {} THEN <<>>
    ELSE LET d == CHOOSE d \in S : \A x \in S : LexCmp(d, x) <= 0
         IN  <<DirectoryEntry(d)>> \o EntriesOf(S \ {d})

\* the first and the last directory, in ascending order, that carry %NAME% n
FirstDir(n) ==
    CHOOSE d \in Directories :
        /\ DirectoryName(d) = n
        /\ \A x \in Directories : DirectoryName(x) = n => LexCmp(d, x) <= 0

LastDir(n) ==
    CHOOSE d \in Directories :
        /\ DirectoryName(d) = n
        /\ \A x \in Directories : DirectoryName(x) = n => LexCmp(x, d) <= 0

----------------------------------------------------------------------------
(* Claims about dependency lines and the Database *)

\* C7: a dependency line yields description = the text after the rightmost
\* ": " (absent without one), name = the longest prefix of the rest without
\* '<', '>', '=', operator = the operator after the name ("<=" and ">=" first),
\* operand = the text after the operator; operator and operand are absent
\* together. "foo>=1.2: optional thing" gives (foo, >=, 1.2, optional thing).
C7_DependencyLine ==
    /\ (dep.status # "none" /\ ~Malformed(line)) => dep.status = "ok"
    /\ dep.status = "ok" =>
        /\ DOMAIN dep.value = {NameOf(line)}
        /\ dep.value[NameOf(line)] =
              {<<NameOf(line), OperatorOf(line), OperandOf(line), DescriptionOf(line)>>}
        /\ \A e \in dep.value[NameOf(line)] : (e[2] = None) <=> (e[3] = None)
    /\ (dep.status # "none" /\ line \in DocumentedLines) =>
          dep = Returned([n \in {<<"f", "o", "o">>} |->
                    {<< <<"f", "o", "o">>, <<">", "=">>, <<"1", ".", "2">>,
                        <<"o", "p", "t", "i", "o", "n", "a", "l", " ",
                          "t", "h", "i", "n", "g">> >>}])

\* "f<=1": the two-character operator is taken, with description absent
C7_Witness ==
    /\ line = <<"f", "<", "=", "1">>
    /\ dep = Returned([n \in {<<"f">>} |->
                 {<< <<"f">>, <<"<", "=">>, <<"1">>, None >>}])

\* C8: compute_requiredby() of Q returns exactly the names of the packages P
\* of the index with Q's name, or a name Q provides, among the keys of P's
\* depends map, whatever the version constraints; compute_optionalfor() is the
\* same over optdepends. With A depending on B, A's result is empty and B's
\* contains A.
C8_ReverseDependencies ==
    /\ \A tag \in {DEPENDS, OPTDEPENDS} :
         (res.op = (IF tag = DEPENDS THEN "requiredby" ELSE "optionalfor")) =>
            /\ (/\ \A l \in RawLines(EntryOf(res.pkg), PROVIDES) : ~Malformed(l)
                /\ \A e \in Entries : \A l \in RawLines(e, tag) : ~Malformed(l))
                  => res.ret.status = "ok"
            /\ res.ret.status = "ok" =>
                  /\ Range(res.ret.value) = DependingOn(res.pkg, tag)
                  /\ Len(res.ret.value) = Cardinality(DependingOn(res.pkg, tag))
    /\ (res.op = "requiredby" /\ Directories = {<<"a">>, <<"b">>}
          /\ res.ret.status = "ok") =>
          res.ret.value = (IF res.pkg = <<"a">> THEN <<>> ELSE << <<"a">> >>)

\* b is required by a (which asks for b>=2) and by c (which asks for v<2,
\* that b provides as v=1)
C8_Witness ==
    /\ res.op = "requiredby" /\ res.pkg = <<"b">>
    /\ res.ret = Returned(<< <<"a">>, <<"c">> >>)

\* C9 as claimed: constructing the Database from a container that holds a
\* dependency line with an empty name fails.
C9_FailsAtConstruction ==
    (/\ db.status # "none"
     /\ \E d \in Directories : \E tag \in {DEPENDS, OPTDEPENDS, PROVIDES} :
           \E l \in RawLines(DirectoryEntry(d), tag) : Malformed(l))
        => db.status = "raised"

\* C9 as amended: construction does not read dependency lines, so it fails
\* only for a directory without a %NAME% value and keeps a malformed line as
\* raw text; reading the dependency field that holds the line fails, and so
\* does a reverse-dependency query whose scan reads it.
C9_FailsOnAccess ==
    /\ db.status # "none" =>
          (db.status = "ok" <=> \A d \in Directories : HasName(d))
    /\ res.op = "depends" =>
          (res.ret.status = "raised" <=>
              \E l \in RawLines(EntryOf(res.pkg), res.tag) : Malformed(l))
    /\ \A tag \in {DEPENDS, OPTDEPENDS} :
         (res.op = (IF tag = DEPENDS THEN "requiredby" ELSE "optionalfor")) =>
            (res.ret.status = "raised" <=>
                \/ \E l \in RawLines(EntryOf(res.pkg), PROVIDES) : Malformed(l)
                \/ \E e \in Entries : \E l \in RawLines(e, tag) : Malformed(l))

\* the Database was built with m's line ">=1" in it, and b's
\* compute_requiredby() fails on it
C9_Witness ==
    /\ db.status = "ok"
    /\ \E e \in Entries : <<">", "=", "1">> \in RawLines(e, DEPENDS)
    /\ res.op = "requiredby" /\ res.pkg = <<"b">>
    /\ res.ret = Raised("AttributeError")

\* C10 as claimed: construction produces one entry per package directory,
\* from its desc/depends/files members in path order, keyed by its %NAME%, and
\* iteration yields them in ascending order of directory name, also when two
\* directories carry the same %NAME%.
C10_OnePerDirectory ==
    (db.status = "ok" /\ res.op = "iter") =>
        /\ res.value = EntriesOf(Directories)
        /\ \A i \in DOMAIN db.value : db.value[i][1] = db.value[i][2][NAME][1]

\* C10 as amended: construction succeeds when every directory's text has a
\* %NAME% value, and then holds one entry per distinct %NAME%, keyed by it:
\* that of the last directory carrying the name, at the place of the first
\* directory carrying it. Iteration follows that order, which is one entry
\* per directory in ascending directory order when no two directories carry
\* the same %NAME%.
C10_OnePerName ==
    /\ db.status # "none" =>
          (db.status = "ok" <=> \A d \in Directories : HasName(d))
    /\ db.status = "ok" =>
        LET names == {DirectoryName(d) : d \in Directories}
        IN  /\ Len(db.value) = Cardinality(names)
            /\ \A i \in DOMAIN db.value :
                  /\ db.value[i][1] \in names
                  /\ db.value[i][2] = DirectoryEntry(LastDir(db.value[i][1]))
                  /\ db.value[i][1] = db.value[i][2][NAME][1]
            /\ \A i, j \in DOMAIN db.value :
                  i < j => LexCmp(FirstDir(db.value[i][1]),
                                  FirstDir(db.value[j][1])) < 0
            /\ res.op = "iter" =>
                  /\ res.value = [i \in DOMAIN db.value |-> db.value[i][2]]
                  /\ Cardinality(names) = Cardinality(Directories)
                        => res.value = EntriesOf(Directories)

\* directories a and d both carry %NAME% a: d's entry is yielded first, b's
\* second
C10_Witness ==
    /\ db.status = "ok" /\ res.op = "iter"
    /\ Directories = {<<"a">>, <<"b">>, <<"d">>}
    /\ res.value = <<DirectoryEntry(<<"d">>), DirectoryEntry(<<"b">>)>>

(***************************************************************************)
(* The metadata block parser, read off the lines of the text *)
(***************************************************************************)
\* a line without its leading and trailing blanks
Stripped(l) ==
    LET K == {k \in 1..Len(l) : l[k] # " "}
    IN  IF K = {} THEN <<>>
        ELSE SubSeq(l, CHOOSE k \in K : \A j \in K : k <= j,
                       CHOOSE k \in K : \A j \in K : j <= k)

StrippedLines(t) == [i \in 1..Len(splitlines(t)) |-> Stripped(splitlines(t)[i])]

\* the lines that are read as tags: the first line, and every line after a
\* blank line that is not itself read as a tag
TagLines(L) ==
    CHOOSE T \in SUBSET (1..Len(L)) :
        \A i \in 1..Len(L) :
            i \in T <=> (i = 1 \/ (L[i - 1] = <<>> /\ (i - 1) \notin T))

\* the line that ends the block of the tag at line i: the next blank line, or
\* the end of the input
BlockEnd(L, i) ==
    LET B == {j \in (i + 1)..Len(L) : L[j] = <<>>}
    IN  IF B = {} THEN Len(L) + 1 ELSE CHOOSE j \in B : \A k \in B : j <= k

BlockValues(L, i) == SubSeq(L, i + 1, BlockEnd(L, i) - 1)

\* the last line where k is read as a tag
LastTagLine(L, k) ==
    CHOOSE i \in TagLines(L) :
        L[i] = k /\ \A j \in TagLines(L) : L[j] = k => j <= i

BlockMap(L) ==
    [k \in {L[i] : i \in TagLines(L)} |-> BlockValues(L, LastTagLine(L, k))]

\* C11: _parse_desc never fails and returns the map of the line-by-line
\* machine: the first line and every line after a committing blank line is a
\* tag (a blank one too), a blank line under a tag commits the values gathered
\* since the tag, the end of the input commits a pending tag, and a tag that
\* occurs again keeps the values of its last block only
C11_BlockMachine ==
    /\ parsed.status \in {"none", "ok"}
    /\ parsed.status = "ok" => parsed.value = BlockMap(StrippedLines(text))

\* a tag occurs twice with different values, the second block without a
\* closing blank line, and the values of the second block remain
C11_Witness ==
    /\ parsed.status = "ok"
    /\ LET L == StrippedLines(text)
       IN  \E i, j \in TagLines(L) :
               /\ i < j /\ L[i] = L[j]
               /\ BlockValues(L, i) # BlockValues(L, j)
               /\ BlockEnd(L, j) = Len(L) + 1
               /\ parsed.value[L[j]] = BlockValues(L, j)

(***************************************************************************)
(* The canonical form against the version it was made from *)
(***************************************************************************)
AllZeros(s) == \A i \in 1..Len(s) : s[i] = "0"

\* the number of leading zeros of s
LeadingZeros(s) ==
    Cardinality({i \in 1..Len(s) : \A j \in 1..i : s[j] = "0"})

\* canonicalize leaves the epoch's tokens alone: the epoch prefix is not a
\* run of two or more zeros
EpochKept(v) == ~(Len(EpochOf(v)) >= 2 /\ AllZeros(EpochOf(v)))

\* canonicalize leaves the upstream's tokens alone: every run of characters
\* that are neither digits nor letters is one character long
UpstreamKept(v) ==
    \A k \in 1..NTok(UpstreamOf(v)) :
        TokClass(UpstreamOf(v), k) = "OTHER" => Len(Tok(UpstreamOf(v), k)) = 1

\* canonicalize leaves the release's tokens alone: the release is not empty,
\* and its leading zeros are not a whole digit run that something follows
ReleaseKept(v) ==
    HasRelease(v) =>
        LET r == ReleaseOf(v)  z == LeadingZeros(ReleaseOf(v))
        IN  /\ r # <<>>
            /\ (z = 0 \/ z = Len(r) \/ isdigit(r[z + 1]))

\* C12 as claimed: a version compares equal to its canonical form
C12_CanonEquivalent ==
    out.op = "vercmp_canonical" => out.ret = 0

\* C12 as amended: a version compares equal to its canonical form exactly
\* when canonicalization keeps the tokens of its epoch, upstream and release
C12_CanonEquivalentWhenKept ==
    out.op = "vercmp_canonical" =>
        (out.ret = 0 <=> (EpochKept(v1) /\ UpstreamKept(v1) /\ ReleaseKept(v1)))

\* "01_a": canonicalize rewrites it to "1.a" and the two compare equal
C12_Witness ==
    /\ out.op = "vercmp_canonical"
    /\ v1 = <<"0", "1", "_", "a">>
    /\ out.c = <<"1", ".", "a">>
    /\ out.ret = 0

====
